---- MODULE Spec2Model ----
(***************************************************************************)
(* Model of the rollup device driver of rollup-http-server                *)
(* (src/rollup-http/rollup-http-server/src/rollup/mod.rs).                *)
(*                                                                         *)
(* Two parts share the module:                                             *)
(*   - the device handle RollupFd (create / clone / move / borrow / drop)  *)
(*     and the native init / fini calls it issues, explored by SpecHandle; *)
(*   - the protocol operations (finish, read, the four emitters) run by    *)
(*     one caller on one live handle against a nondeterministic device,    *)
(*     explored by Spec.                                                   *)
(*                                                                         *)
(* Narrower specifications over the same operations follow the caller      *)
(* section: a payload echoed from the reader to an emitter (SpecRoundTrip),*)
(* tasks running request cycles on a shared handle (SpecTasks), the field  *)
(* validators (SpecValidate), emitters on long payloads (SpecLength), the  *)
(* finish call with a caller's structure (SpecFinish) and the reader run   *)
(* on two statuses (SpecReaderPair).                                       *)
(***************************************************************************)
EXTENDS Integers, Sequences, FiniteSets, TLC

VARIABLES
    hstate,      \* handle value -> "none" | "live" | "moved" | "dropped"
    hptr,        \* handle value -> the session pointer self.0 it holds (0: none)
    refs,        \* handle value -> number of outstanding shared borrows (&RollupFd)
    nsessions,   \* number of cmt_rollup_t boxes allocated so far by create()
    initCalls,   \* session -> number of cmt_rollup_init calls issued on it
    initOk,      \* sessions whose cmt_rollup_init returned 0
    finiCalls,   \* session -> number of cmt_rollup_fini calls issued on it
    freed,       \* sessions whose box was released by Box::from_raw + drop
    crashed,     \* the process died in a double free
    calls,       \* names of the native protocol calls the device has seen, in order
    req,         \* the most recent driver operation and its arguments
    issued,      \* the native calls that operation issued: arguments and device outputs
    ret,         \* what that operation returned to its caller
    noticeLog,   \* per successful emit_notice of the cycle: index written, index returned
    delivered,   \* the payload bytes the device delivered with the request last read
    pc,          \* task -> where the task stands in its request cycle
    status,      \* task -> the FinishStatus the task got from its finish step
    overlap,     \* a task issued a native call while another task's cycle was in flight
    validated,   \* the text last given to the field validators, and their verdicts
    pair         \* the outcomes of the reader run on two statuses with one device answer

handleVars == <<hstate, hptr, refs, nsessions, initCalls, initOk, finiCalls, freed, crashed>>
protoVars == <<calls, req, issued, ret, noticeLog>>
sideVars == <<delivered, pc, status, overlap, validated, pair>>
vars == <<hstate, hptr, refs, nsessions, initCalls, initOk, finiCalls, freed, crashed,
          calls, req, issued, ret, noticeLog,
          delivered, pc, status, overlap, validated, pair>>

(***************************************************************************)
(* Bounds of the model.                                                    *)
(***************************************************************************)
MaxHandles == 3
MaxSessions == 2
MaxRefs == 1
MaxCalls == 2
MaxPayloadLen == 3
MaxCycleCalls == 4
MaxTextLen == 4

Handles == 1..MaxHandles
Sessions == 1..MaxSessions

\* Status codes a native call may return: a negative errno, success, a positive code.
NativeStatus == {-1, 0, 1}

NoReq == [op |-> "none"]

\* The two tasks that may share one handle by reference.
Tasks == {"task1", "task2"}

\* No FinishStatus in hand.
NoStatus == [none |-> TRUE]

\* The side variables before any of the narrower specifications has acted.
SideInit ==
    /\ delivered = <<>>
    /\ pc = [t \in Tasks |-> "idle"]
    /\ status = [t \in Tasks |-> NoStatus]
    /\ overlap = FALSE
    /\ validated = [done |-> FALSE]
    /\ pair = <<>>

(***************************************************************************)
(* Texts are sequences of characters; a byte is a number in 0..255.        *)
(***************************************************************************)
HexDigits == <<"0", "1", "2", "3", "4", "5", "6", "7",
               "8", "9", "a", "b", "c", "d", "e", "f">>

\* The one character of the model's alphabet that takes two bytes in UTF-8.
WideChars == {"é"}

\* Length in bytes of a character's UTF-8 encoding.
Utf8Len(c) == IF c \in WideChars THEN 2 ELSE 1

RECURSIVE ByteLen(_)
\* str::len(): the length of a text in bytes.
ByteLen(text) ==
    IF text = <<>> THEN 0 ELSE Utf8Len(Head(text)) + ByteLen(Tail(text))

\* A u32 is written in two 16-bit halves where it may exceed the model checker's
\* integers.
U32(hi, lo) == [hi |-> hi, lo |-> lo]

\* `x as u32` for an i32 x: x modulo 2^32.
I32AsU32(x) ==
    IF x >= 0
       THEN U32(x \div 65536, x % 65536)
       ELSE LET y == (x + 2147483647) + 1 IN U32(32768 + (y \div 65536), y % 65536)

\* `n as u32` for a usize n: n modulo 2^32, computed by halves.
AsU32(n) == (n % 65536) + 65536 * ((n \div 65536) % 65536)

\* The value of one hex digit as the hex crate reads it (either case), -1 when the
\* character is no hex digit.
HexVal(c) ==
    CASE c = "0" -> 0 [] c = "1" -> 1 [] c = "2" -> 2 [] c = "3" -> 3
      [] c = "4" -> 4 [] c = "5" -> 5 [] c = "6" -> 6 [] c = "7" -> 7
      [] c = "8" -> 8 [] c = "9" -> 9
      [] c \in {"a", "A"} -> 10 [] c \in {"b", "B"} -> 11
      [] c \in {"c", "C"} -> 12 [] c \in {"d", "D"} -> 13
      [] c \in {"e", "E"} -> 14 [] c \in {"f", "F"} -> 15
      [] OTHER -> -1

RECURSIVE HexPairs(_)
\* The bytes of a text of hex digit pairs.
HexPairs(text) ==
    IF text = <<>> THEN <<>>
    ELSE <<HexVal(text[1]) * 16 + HexVal(text[2])>> \o HexPairs(SubSeq(text, 3, Len(text)))

\* hex::decode: Err on an odd length in bytes or on any character that is no hex
\* digit, else the bytes.
HexDecode(text) ==
    IF ByteLen(text) % 2 # 0 \/ \E i \in 1..Len(text) : HexVal(text[i]) < 0
       THEN [ok |-> FALSE, bytes |-> <<>>]
       ELSE [ok |-> TRUE, bytes |-> HexPairs(text)]

\* The two digits of one byte, low half first.
HexByteLowFirst(b) == <<HexDigits[(b % 16) + 1], HexDigits[(b \div 16) + 1]>>

\* The two lowercase hex digits of one byte.
HexByte(b) == <<HexDigits[(b \div 16) + 1], HexDigits[(b % 16) + 1]>>

RECURSIVE HexEncode(_)
\* hex::encode: two lowercase hex digits per byte.
HexEncode(bytes) ==
    IF bytes = <<>> THEN <<>> ELSE HexByte(Head(bytes)) \o HexEncode(Tail(bytes))

\* &text[2..]: the text from byte offset 2 on. It panics when the text is shorter
\* than two bytes or when offset 2 is inside a character.
SliceFrom2(text) ==
    IF text # <<>> /\ Utf8Len(text[1]) = 2
       THEN [ok |-> TRUE, text |-> Tail(text)]
    ELSE IF Len(text) >= 2 /\ Utf8Len(text[2]) = 1
       THEN [ok |-> TRUE, text |-> SubSeq(text, 3, Len(text))]
    ELSE [ok |-> FALSE, text |-> <<>>]

\* hex::decode(&text[2..]) as each emitter calls it on a field:
\* "panic" (the slice), "err" (the decode) or "ok" with the bytes.
DecodeField(text) ==
    LET s == SliceFrom2(text) IN
    IF ~s.ok THEN [kind |-> "panic", bytes |-> <<>>]
    ELSE LET d == HexDecode(s.text) IN
         IF d.ok THEN [kind |-> "ok", bytes |-> d.bytes]
                 ELSE [kind |-> "err", bytes |-> <<>>]

\* A usize (64 bits) written in four 16-bit limbs, w3 the highest.
Usize(w3, w2, w1, w0) == [w3 |-> w3, w2 |-> w2, w1 |-> w1, w0 |-> w0]

\* `n as u32` for a usize n in limbs: the low 32 bits.
UsizeAsU32(n) == U32(n.w1, n.w0)

\* "0x".to_string() + &hex::encode(bytes)
Hex0x(bytes) == <<"0", "x">> \o HexEncode(bytes)

\* A match that must begin at the start of the text.
MatchesHexWhole(text, max) ==
    /\ Len(text) - 2 \in 1..max
    /\ text[1] = "0"
    /\ text[2] = "x"
    /\ \A j \in 3..Len(text) : HexVal(text[j]) >= 0

\* A match of the pattern 0x[0-9a-fA-F]{1,max}$ somewhere in the text: "0x" at
\* some offset, then 1 to max hex digits up to the end of the text.
MatchesHexSuffix(text, max) ==
    \E i \in 1..Len(text) :
        /\ i + 1 <= Len(text)
        /\ text[i] = "0"
        /\ text[i + 1] = "x"
        /\ Len(text) - (i + 1) \in 1..max
        /\ \A j \in (i + 2)..Len(text) : HexVal(text[j]) >= 0

\* ETH_ADDR_REGEXP: 0x[0-9a-fA-F]{1,42}$
ETH_ADDR_REGEXP(text) == MatchesHexSuffix(text, 42)

\* ETH_U256_REGEXP: 0x[0-9a-fA-F]{1,64}$
ETH_U256_REGEXP(text) == MatchesHexSuffix(text, 64)

(***************************************************************************)
(* Results of the driver operations.                                       *)
(***************************************************************************)
NoError == [type |-> "none", text |-> "", coded |-> FALSE, code |-> 0]

\* RollupError::new(&format!("<text> {}", code))
RollupErrorCode(text, code) ==
    [type |-> "RollupError", text |-> text, coded |-> TRUE, code |-> code]

\* RollupError::new("<text>")
RollupErrorText(text) ==
    [type |-> "RollupError", text |-> text, coded |-> FALSE, code |-> 0]

\* std::io::Error::new(ErrorKind::Other, e.to_string()): the message of e after
\* "rollup error: ", code included.
IoOther(e) == [e EXCEPT !.type = "io::ErrorKind::Other"]

\* std::io::Error::new(ErrorKind::Unsupported, "<text>")
IoUnsupported(text) ==
    [type |-> "io::ErrorKind::Unsupported", text |-> text, coded |-> FALSE, code |-> 0]

NoRet == [kind |-> "none", value |-> "none", error |-> NoError]
RetOk(v) == [kind |-> "Ok", value |-> v, error |-> NoError]
RetErr(e) == [kind |-> "Err", value |-> "none", error |-> e]
RetPanic == [kind |-> "Panic", value |-> "none", error |-> NoError]

(***************************************************************************)
(* Device handle.                                                          *)
(***************************************************************************)
FreeHandle(h) == hstate[h] = "none" /\ \A g \in Handles : hstate[g] = "none" => h <= g

\* RollupFd::create(): leak a zeroed box, cmt_rollup_init on it; Err(result) when
\* the result is nonzero (the box stays leaked), else a handle owning the pointer.
Create ==
    /\ ~crashed
    /\ nsessions < MaxSessions
    /\ \E h \in Handles, result \in NativeStatus :
        /\ FreeHandle(h)
        /\ LET s == nsessions + 1 IN
            /\ nsessions' = s
            /\ initCalls' = [initCalls EXCEPT ![s] = @ + 1]
            /\ IF result # 0
                  THEN UNCHANGED <<hstate, hptr, initOk>>
                  ELSE /\ hstate' = [hstate EXCEPT ![h] = "live"]
                       /\ hptr' = [hptr EXCEPT ![h] = s]
                       /\ initOk' = initOk \cup {s}
    /\ UNCHANGED <<refs, finiCalls, freed, crashed>>
    /\ UNCHANGED <<protoVars, sideVars>>

\* The pointer a clone of handle h holds: #[derive(Clone)] copies the raw pointer.
ClonedPtr(h) == hptr[h]

\* RollupFd::clone(&self), provided by #[derive(Clone)]: a second handle value.
Clone ==
    /\ ~crashed
    /\ \E h \in Handles, c \in Handles :
        /\ hstate[h] = "live"
        /\ FreeHandle(c)
        /\ hstate' = [hstate EXCEPT ![c] = "live"]
        /\ hptr' = [hptr EXCEPT ![c] = ClonedPtr(h)]
    /\ UNCHANGED <<refs, nsessions, initCalls, initOk, finiCalls, freed, crashed>>
    /\ UNCHANGED <<protoVars, sideVars>>

\* A move of the handle: the value changes place, the old place is never dropped.
Move ==
    /\ ~crashed
    /\ \E h \in Handles, m \in Handles :
        /\ hstate[h] = "live"
        /\ refs[h] = 0
        /\ FreeHandle(m)
        /\ hstate' = [hstate EXCEPT ![h] = "moved", ![m] = "live"]
        /\ hptr' = [hptr EXCEPT ![h] = 0, ![m] = hptr[h]]
    /\ UNCHANGED <<refs, nsessions, initCalls, initOk, finiCalls, freed, crashed>>
    /\ UNCHANGED <<protoVars, sideVars>>

\* Sharing by reference: a &RollupFd is taken (as every driver operation does).
Borrow ==
    /\ ~crashed
    /\ \E h \in Handles :
        /\ hstate[h] = "live"
        /\ refs[h] < MaxRefs
        /\ refs' = [refs EXCEPT ![h] = @ + 1]
    /\ UNCHANGED <<hstate, hptr, nsessions, initCalls, initOk, finiCalls, freed, crashed>>
    /\ UNCHANGED <<protoVars, sideVars>>

\* The reference goes out of scope.
Release ==
    /\ ~crashed
    /\ \E h \in Handles :
        /\ refs[h] > 0
        /\ refs' = [refs EXCEPT ![h] = @ - 1]
    /\ UNCHANGED <<hstate, hptr, nsessions, initCalls, initOk, finiCalls, freed, crashed>>
    /\ UNCHANGED <<protoVars, sideVars>>

\* impl Drop for RollupFd: cmt_rollup_fini(self.0), then the box is released.
\* On a pointer already released both steps are undefined behaviour: the call
\* is issued on dangling memory and the second release may or may not abort.
Drop ==
    /\ ~crashed
    /\ \E h \in Handles :
        /\ hstate[h] = "live"
        /\ refs[h] = 0
        /\ hstate' = [hstate EXCEPT ![h] = "dropped"]
        /\ hptr' = [hptr EXCEPT ![h] = 0]
        /\ finiCalls' = [finiCalls EXCEPT ![hptr[h]] = @ + 1]
        /\ freed' = freed \cup {hptr[h]}
        /\ IF hptr[h] \in freed
              THEN crashed' \in BOOLEAN
              ELSE crashed' = crashed
    /\ UNCHANGED <<refs, nsessions, initCalls, initOk>>
    /\ UNCHANGED <<protoVars, sideVars>>

InitHandle ==
    /\ hstate = [h \in Handles |-> "none"]
    /\ hptr = [h \in Handles |-> 0]
    /\ refs = [h \in Handles |-> 0]
    /\ nsessions = 0
    /\ initCalls = [s \in Sessions |-> 0]
    /\ initOk = {}
    /\ finiCalls = [s \in Sessions |-> 0]
    /\ freed = {}
    /\ crashed = FALSE
    /\ calls = <<>>
    /\ req = NoReq
    /\ issued = <<>>
    /\ ret = NoRet
    /\ noticeLog = <<>>
    /\ SideInit

NextHandle == Create \/ Clone \/ Move \/ Borrow \/ Release \/ Drop

SpecHandle == InitHandle /\ [][NextHandle]_vars

(***************************************************************************)
(* Protocol operations. Each takes the session pointer fd.0, its arguments *)
(* and the device's answer to the native call it may issue, and yields the *)
(* value returned and the native calls issued.                             *)
(***************************************************************************)
REQUEST_TYPE_ADVANCE_STATE == 0
REQUEST_TYPE_INSPECT_STATE == 1
CARTESI_ROLLUP_ADDRESS_SIZE == 20

\* Indices the device may write through the index out-parameter.
Indices == {0, 1, 2}

\* A status test that lets positive codes through.
EmitFailedNegative(res) == res < 0

\* The status test of the four emitters: `if res != 0`.
EmitFailed(res) == res # 0

\* An index kept from the cycle's previous notice instead of the one just written.
ReturnedIndexCached(call) ==
    IF noticeLog # <<>> THEN noticeLog[Len(noticeLog)].drv ELSE call.index

\* The index an emitter returns: the out-parameter after the call, as u64.
ReturnedIndex(call) == call.index

\* A decode error found only after the device was handed an empty payload.
DecodeStopAfterEmit(d, text) ==
    [ret |-> IF d.kind = "panic" THEN RetPanic ELSE RetErr(RollupErrorText(text)),
     issued |-> IF d.kind = "panic" THEN <<>>
                ELSE <<[op |-> "cmt_rollup_emit_report", session |-> 1, length |-> 0,
                        data |-> <<>>, res |-> 0]>>]

\* The answer of one emit field decode that stops the emitter, given the text of
\* the error it returns on a decode error.
DecodeStop(d, text) ==
    [ret |-> IF d.kind = "panic" THEN RetPanic ELSE RetErr(RollupErrorText(text)),
     issued |-> <<>>]

\* rollup_write_notice(fd, notice)
rollup_write_notice(session, notice, dev) ==
    LET d == DecodeField(notice.payload) IN
    IF d.kind # "ok"
       THEN DecodeStop(d, "Error decoding notice payload, payload must be in Ethereum hex binary format")
    ELSE LET call == [op |-> "cmt_rollup_emit_notice", session |-> session,
                      length |-> AsU32(Len(d.bytes)), data |-> d.bytes,
                      res |-> dev.res, index |-> dev.index] IN
         [ret |-> IF EmitFailed(call.res)
                     THEN RetErr(RollupErrorCode("IOCTL_ROLLUP_WRITE_NOTICE returned error", call.res))
                     ELSE RetOk(ReturnedIndex(call)),
          issued |-> <<call>>]

\* rollup_write_voucher(fd, voucher): payload, then value, then destination are
\* decoded; no pattern is checked here.
rollup_write_voucher(session, voucher, dev) ==
    LET p == DecodeField(voucher.payload)
        v == DecodeField(voucher.value)
        a == DecodeField(voucher.destination)
    IN
    IF p.kind # "ok"
       THEN DecodeStop(p, "Error decoding voucher payload, it must be in Ethereum hex binary format")
    ELSE IF v.kind # "ok"
       THEN DecodeStop(v, "Error decoding voucher value, it must be in Ethereum hex binary format")
    ELSE IF a.kind # "ok"
       THEN DecodeStop(a, "address not valid")
    ELSE LET call == [op |-> "cmt_rollup_emit_voucher", session |-> session,
                      address_length |-> AsU32(Len(a.bytes)), address |-> a.bytes,
                      value_length |-> AsU32(Len(v.bytes)), value |-> v.bytes,
                      length |-> AsU32(Len(p.bytes)), data |-> p.bytes,
                      res |-> dev.res, index |-> dev.index] IN
         [ret |-> IF EmitFailed(call.res)
                     THEN RetErr(RollupErrorCode("IOCTL_ROLLUP_WRITE_VOUCHER returned error", call.res))
                     ELSE RetOk(ReturnedIndex(call)),
          issued |-> <<call>>]

\* rollup_write_report(fd, report)
rollup_write_report(session, report, dev) ==
    LET d == DecodeField(report.payload) IN
    IF d.kind # "ok"
       THEN DecodeStop(d, "Error decoding report payload, payload must be in Ethereum hex binary format")
    ELSE LET call == [op |-> "cmt_rollup_emit_report", session |-> session,
                      length |-> AsU32(Len(d.bytes)), data |-> d.bytes,
                      res |-> dev.res] IN
         [ret |-> IF EmitFailed(call.res)
                     THEN RetErr(RollupErrorCode("IOCTL_ROLLUP_WRITE_REPORT returned error", call.res))
                     ELSE RetOk("unit"),
          issued |-> <<call>>]

\* rollup_throw_exception(fd, exception); its decode error text says "report".
rollup_throw_exception(session, exception, dev) ==
    LET d == DecodeField(exception.payload) IN
    IF d.kind # "ok"
       THEN DecodeStop(d, "Error decoding report payload, payload must be in Ethereum hex binary format")
    ELSE LET call == [op |-> "cmt_rollup_emit_exception", session |-> session,
                      length |-> AsU32(Len(d.bytes)), data |-> d.bytes,
                      res |-> dev.res] IN
         [ret |-> IF EmitFailed(call.res)
                     THEN RetErr(RollupErrorCode("IOCTL_ROLLUP_THROW_EXCEPTION returned error", call.res))
                     ELSE RetOk("unit"),
          issued |-> <<call>>]

\* A finish structure that starts from the status the previous finish step
\* returned.
RollupFinishCarriedOver ==
    IF req.op = "perform_rollup_finish_request" /\ ret.kind = "Ok"
       THEN ret.value
       ELSE [accept_previous_request |-> FALSE, next_request_type |-> 0,
             next_request_payload_length |-> 0]

\* RollupFinish::default()
RollupFinishDefault ==
    [accept_previous_request |-> FALSE, next_request_type |-> 0,
     next_request_payload_length |-> 0]

\* impl From<&mut RollupFinish> for cmt_rollup_finish_t
FinishToC(other) ==
    [next_request_type |-> other.next_request_type,
     accept_previous_request |-> other.accept_previous_request,
     next_request_payload_length |-> AsU32(other.next_request_payload_length)]

\* impl From<cmt_rollup_finish_t> for RollupFinish
FinishFromC(other) ==
    [accept_previous_request |-> other.accept_previous_request,
     next_request_type |-> other.next_request_type,
     next_request_payload_length |-> other.next_request_payload_length]

\* The status test of rollup_finish_request: `if res < 0`.
FinishFailed(res) == res < 0

\* The structure after cmt_rollup_finish: the device may write the next request's
\* type and payload length into it.
FinishWritten(finish_c, dev) ==
    IF dev.wrote
       THEN [finish_c EXCEPT !.next_request_type = dev.next_request_type,
                             !.next_request_payload_length = dev.next_request_payload_length]
       ELSE finish_c

\* rollup_finish_request(fd, &mut finish): also yields the caller's finish value
\* as the call leaves it.
rollup_finish_request(session, finish, dev) ==
    LET finish_c == FinishToC(finish)
        call == [op |-> "cmt_rollup_finish", session |-> session, arg |-> finish_c,
                 res |-> dev.res, out |-> FinishWritten(finish_c, dev)]
    IN
    IF FinishFailed(call.res)
       THEN [ret |-> RetErr(RollupErrorCode("IOCTL_ROLLUP_FINISH returned error", call.res)),
             finish |-> finish, issued |-> <<call>>]
       ELSE [ret |-> RetOk("unit"), finish |-> FinishFromC(call.out), issued |-> <<call>>]

\* A finish step that calls the device a second time when the first call fails.
perform_rollup_finish_request_retrying(session, accept, dev) ==
    LET finish_request == [RollupFinishDefault EXCEPT !.accept_previous_request = accept]
        r == rollup_finish_request(session, finish_request, dev)
        again == rollup_finish_request(session, finish_request, dev)
    IN
    IF r.ret.kind = "Ok"
       THEN [ret |-> RetOk(r.finish), issued |-> r.issued]
       ELSE [ret |-> IF again.ret.kind = "Ok" THEN RetOk(again.finish)
                     ELSE RetErr(IoOther(again.ret.error)),
             issued |-> r.issued \o again.issued]

\* perform_rollup_finish_request(fd, accept)
perform_rollup_finish_request(session, accept, dev) ==
    LET finish_request == [RollupFinishDefault EXCEPT !.accept_previous_request = accept]
        r == rollup_finish_request(session, finish_request, dev)
    IN
    [ret |-> IF r.ret.kind = "Ok" THEN RetOk(r.finish) ELSE RetErr(IoOther(r.ret.error)),
     issued |-> r.issued]

\* The descriptor as the readers set it up before the native call: all zero, a
\* null payload pointer.
ZeroSender == [i \in 1..CARTESI_ROLLUP_ADDRESS_SIZE |-> 0]
ZeroAdvance ==
    [msg_sender |-> ZeroSender, block_number |-> 0, block_timestamp |-> 0, index |-> 0,
     payload_length |-> 0, payload |-> <<>>]
ZeroInspect == [payload_length |-> 0, payload |-> <<>>]

\* A copy of all the device memory behind the pointer, whatever payload_length is.
CopyPayloadWhole(desc) == desc.payload

\* The bytes the readers copy out of device memory: payload_length bytes from the
\* payload pointer, none when payload_length is 0.
CopyPayload(desc) ==
    IF desc.payload_length > 0 THEN SubSeq(desc.payload, 1, desc.payload_length) ELSE <<>>

\* A conversion with the block number and the block timestamp exchanged.
AdvanceMetadataSwapped(other) ==
    [msg_sender |-> Hex0x(other.msg_sender),
     input_index |-> other.index,
     block_timestamp |-> other.block_number,
     block_number |-> other.block_timestamp]

\* impl From<cmt_rollup_advance_t> for AdvanceMetadata
AdvanceMetadataFrom(other) ==
    [msg_sender |-> Hex0x(other.msg_sender),
     input_index |-> other.index,
     block_timestamp |-> other.block_timestamp,
     block_number |-> other.block_number]

\* The status test of the two readers: `if res != 0`.
ReadFailed(res) == res # 0

\* rollup_read_advance_state_request(fd)
rollup_read_advance_state_request(session, dev) ==
    LET call == [op |-> "cmt_rollup_read_advance_state", session |-> session,
                 res |-> dev.res, desc |-> dev.desc] IN
    [ret |-> IF ReadFailed(call.res)
                THEN RetErr(RollupErrorCode("IOCTL_ROLLUP_READ_ADVANCE_STATE returned error", call.res))
                ELSE RetOk([metadata |-> AdvanceMetadataFrom(call.desc),
                            payload |-> Hex0x(CopyPayload(call.desc))]),
     issued |-> <<call>>]

\* rollup_read_inspect_state_request(fd)
rollup_read_inspect_state_request(session, dev) ==
    LET call == [op |-> "cmt_rollup_read_inspect_state", session |-> session,
                 res |-> dev.res, desc |-> dev.desc] IN
    [ret |-> IF ReadFailed(call.res)
                THEN RetErr(RollupErrorCode("IOCTL_ROLLUP_READ_INSPECT_STATE returned error", call.res))
                ELSE RetOk([payload |-> Hex0x(CopyPayload(call.desc))]),
     issued |-> <<call>>]

\* A cast that keeps only the low 16 bits.
RequestTypeCastU16(next_request_type) == U32(0, next_request_type % 65536)

\* `finish_request.next_request_type as u32`
RequestTypeCast(next_request_type) == I32AsU32(next_request_type)

\* A reader that copies as many payload bytes as the finish status announced.
handle_rollup_requests_by_status_length(session, finish_request, dev) ==
    LET next_request_type == RequestTypeCast(finish_request.next_request_type)
        Cut(desc) ==
            [desc EXCEPT !.payload_length =
                IF finish_request.next_request_payload_length <= Len(desc.payload)
                   THEN finish_request.next_request_payload_length
                   ELSE Len(desc.payload)]
    IN
    IF next_request_type = U32(0, REQUEST_TYPE_ADVANCE_STATE)
       THEN LET r == rollup_read_advance_state_request(session, [res |-> dev.res, desc |-> Cut(dev.advance)]) IN
            [ret |-> IF r.ret.kind = "Ok"
                        THEN RetOk([variant |-> "Advance", request |-> r.ret.value])
                        ELSE RetErr(IoOther(r.ret.error)),
             issued |-> r.issued]
    ELSE IF next_request_type = U32(0, REQUEST_TYPE_INSPECT_STATE)
       THEN LET r == rollup_read_inspect_state_request(session, [res |-> dev.res, desc |-> Cut(dev.inspect)]) IN
            [ret |-> IF r.ret.kind = "Ok"
                        THEN RetOk([variant |-> "Inspect", request |-> r.ret.value])
                        ELSE RetErr(IoOther(r.ret.error)),
             issued |-> r.issued]
    ELSE [ret |-> RetErr(IoUnsupported("request type unsupported")), issued |-> <<>>]

\* handle_rollup_requests(fd, finish_request): dev holds the status the device
\* answers a read call with and the descriptor it fills for either read.
handle_rollup_requests(session, finish_request, dev) ==
    LET next_request_type == RequestTypeCast(finish_request.next_request_type) IN
    IF next_request_type = U32(0, REQUEST_TYPE_ADVANCE_STATE)
       THEN LET r == rollup_read_advance_state_request(session, [res |-> dev.res, desc |-> dev.advance]) IN
            [ret |-> IF r.ret.kind = "Ok"
                        THEN RetOk([variant |-> "Advance", request |-> r.ret.value])
                        ELSE RetErr(IoOther(r.ret.error)),
             issued |-> r.issued]
    ELSE IF next_request_type = U32(0, REQUEST_TYPE_INSPECT_STATE)
       THEN LET r == rollup_read_inspect_state_request(session, [res |-> dev.res, desc |-> dev.inspect]) IN
            [ret |-> IF r.ret.kind = "Ok"
                        THEN RetOk([variant |-> "Inspect", request |-> r.ret.value])
                        ELSE RetErr(IoOther(r.ret.error)),
             issued |-> r.issued]
    ELSE [ret |-> RetErr(IoUnsupported("request type unsupported")), issued |-> <<>>]

(***************************************************************************)
(* Inputs of the caller and answers of the device explored by the model.   *)
(***************************************************************************)
\* Payload texts: "0x", "0xab", "0xAB", "0xa" (odd), "0xzz" (no hex), "zzab" and
\* "éab" (no "0x" prefix, hex after two bytes), "0" (one byte), "aé" (offset 2
\* inside a character).
PayloadTexts ==
    { <<"0", "x">>, <<"0", "x", "a", "b">>, <<"0", "x", "A", "B">>, <<"0", "x", "a">>,
      <<"0", "x", "z", "z">>, <<"z", "z", "a", "b">>, <<"é", "a", "b">>, <<"0">>,
      <<"a", "é">> }

\* Voucher fields: destinations "0x", "0xab", "0xzz"; values "0x", "0x01", "0xzz",
\* "0"; payloads "0xab", "0xa".
Vouchers ==
    [destination : { <<"0", "x">>, <<"0", "x", "a", "b">>, <<"0", "x", "z", "z">> },
     value : { <<"0", "x">>, <<"0", "x", "0", "1">>, <<"0", "x", "z", "z">>, <<"0">> },
     payload : { <<"0", "x", "a", "b">>, <<"0", "x", "a">> }]

\* The device's answer to an emit call with an index: on success any index, on
\* failure the index is left as the driver initialised it.
IndexAnswers ==
    {[res |-> 0, index |-> i] : i \in Indices}
        \cup {[res |-> r, index |-> 0] : r \in NativeStatus \ {0}}

\* The device's answer to an emit call without an index.
StatusAnswers == {[res |-> r] : r \in NativeStatus}

\* Request types the device may report, and request types a caller may pass to
\* the reader (any i32).
DeviceRequestTypes == {-1, 0, 1, 7}
RequestTypes == {-2147483647 - 1, -1, 0, 1, 2, 7, 256, 65536, 2147483647}
PayloadLengths == {0, 2}

\* The device's answer to the finish call: a status, and the fields it wrote.
FinishAnswers ==
    {[res |-> r, wrote |-> FALSE, next_request_type |-> 0,
      next_request_payload_length |-> 0] : r \in NativeStatus}
        \cup [res : NativeStatus, wrote : {TRUE}, next_request_type : DeviceRequestTypes,
              next_request_payload_length : PayloadLengths]

\* The FinishStatus values a caller may hand to the reader.
FinishStatuses ==
    {[accept_previous_request |-> a, next_request_type |-> t,
      next_request_payload_length |-> IF a THEN 2 ELSE 0] :
        a \in BOOLEAN, t \in RequestTypes}

Sender1 == [i \in 1..CARTESI_ROLLUP_ADDRESS_SIZE |-> IF i = 1 THEN 171 ELSE i]

\* What the device may fill on a successful read: the advance descriptor and the
\* inspect descriptor. The payload memory may extend past payload_length.
ReadDescs ==
    { [advance |-> [msg_sender |-> ZeroSender, block_number |-> 10,
                    block_timestamp |-> 1000, index |-> 3,
                    payload_length |-> 0, payload |-> <<>>],
       inspect |-> [payload_length |-> 0, payload |-> <<>>]],
      [advance |-> [msg_sender |-> ZeroSender, block_number |-> 10,
                    block_timestamp |-> 1000, index |-> 3,
                    payload_length |-> 0, payload |-> <<7>>],
       inspect |-> [payload_length |-> 0, payload |-> <<9>>]],
      [advance |-> [msg_sender |-> Sender1, block_number |-> 11,
                    block_timestamp |-> 1001, index |-> 4,
                    payload_length |-> 1, payload |-> <<171, 205>>],
       inspect |-> [payload_length |-> 1, payload |-> <<10, 255>>]],
      [advance |-> [msg_sender |-> Sender1, block_number |-> 11,
                    block_timestamp |-> 1001, index |-> 4,
                    payload_length |-> 2, payload |-> <<222, 173>>],
       inspect |-> [payload_length |-> 2, payload |-> <<0, 190>>]] }

\* The device's answers to a read call: on failure the descriptor is left as the
\* driver initialised it.
ReadAnswers ==
    {[res |-> 0, advance |-> d.advance, inspect |-> d.inspect] : d \in ReadDescs}
        \cup {[res |-> r, advance |-> ZeroAdvance, inspect |-> ZeroInspect] :
                r \in NativeStatus \ {0}}

(***************************************************************************)
(* The caller: one driver operation at a time on a live handle.            *)
(***************************************************************************)
RECURSIVE CallNames(_)
CallNames(cs) == IF cs = <<>> THEN <<>> ELSE <<Head(cs).op>> \o CallNames(Tail(cs))

\* The effect of one driver operation op(arg) that answered r.
Operation(op, arg, r) ==
    /\ req' = [op |-> op, arg |-> arg]
    /\ issued' = r.issued
    /\ ret' = r.ret
    /\ calls' = calls \o CallNames(r.issued)
    /\ noticeLog' =
         IF op = "perform_rollup_finish_request" THEN <<>>
         ELSE IF op = "rollup_write_notice" /\ r.ret.kind = "Ok"
            THEN Append(noticeLog, [dev |-> r.issued[1].index, drv |-> r.ret.value])
         ELSE noticeLog
    /\ UNCHANGED handleVars

\* A handle the caller can pass by reference, and room left in the trace.
Usable(fd) == ~crashed /\ hstate[fd] = "live" /\ Len(calls) < MaxCalls

PerformFinish ==
    \E fd \in Handles, accept \in BOOLEAN, dev \in FinishAnswers :
        /\ Usable(fd)
        /\ Operation("perform_rollup_finish_request", accept,
                     perform_rollup_finish_request(hptr[fd], accept, dev))
        /\ UNCHANGED sideVars

HandleRequests ==
    \E fd \in Handles, finish_request \in FinishStatuses, dev \in ReadAnswers :
        /\ Usable(fd)
        /\ Operation("handle_rollup_requests", finish_request,
                     handle_rollup_requests(hptr[fd], finish_request, dev))
        /\ UNCHANGED sideVars

WriteNotice ==
    \E fd \in Handles, payload \in PayloadTexts, dev \in IndexAnswers :
        /\ Usable(fd)
        /\ Operation("rollup_write_notice", [payload |-> payload],
                     rollup_write_notice(hptr[fd], [payload |-> payload], dev))
        /\ UNCHANGED sideVars

WriteVoucher ==
    \E fd \in Handles, voucher \in Vouchers, dev \in IndexAnswers :
        /\ Usable(fd)
        /\ Operation("rollup_write_voucher", voucher,
                     rollup_write_voucher(hptr[fd], voucher, dev))
        /\ UNCHANGED sideVars

WriteReport ==
    \E fd \in Handles, payload \in PayloadTexts, dev \in StatusAnswers :
        /\ Usable(fd)
        /\ Operation("rollup_write_report", [payload |-> payload],
                     rollup_write_report(hptr[fd], [payload |-> payload], dev))
        /\ UNCHANGED sideVars

ThrowException ==
    \E fd \in Handles, payload \in PayloadTexts, dev \in StatusAnswers :
        /\ Usable(fd)
        /\ Operation("rollup_throw_exception", [payload |-> payload],
                     rollup_throw_exception(hptr[fd], [payload |-> payload], dev))
        /\ UNCHANGED sideVars

\* The state after one successful RollupFd::create().
Init ==
    /\ hstate = [h \in Handles |-> IF h = 1 THEN "live" ELSE "none"]
    /\ hptr = [h \in Handles |-> IF h = 1 THEN 1 ELSE 0]
    /\ refs = [h \in Handles |-> 0]
    /\ nsessions = 1
    /\ initCalls = [s \in Sessions |-> IF s = 1 THEN 1 ELSE 0]
    /\ initOk = {1}
    /\ finiCalls = [s \in Sessions |-> 0]
    /\ freed = {}
    /\ crashed = FALSE
    /\ calls = <<>>
    /\ req = NoReq
    /\ issued = <<>>
    /\ ret = NoRet
    /\ noticeLog = <<>>
    /\ SideInit

Next ==
    \/ PerformFinish
    \/ HandleRequests
    \/ WriteNotice
    \/ WriteVoucher
    \/ WriteReport
    \/ ThrowException

Spec == Init /\ [][Next]_vars

(***************************************************************************)
(* A request payload echoed: the device delivers some bytes with a request,*)
(* the caller reads the request and hands the payload text it got, as it   *)
(* is, to an emitter.                                                      *)
(***************************************************************************)
\* Bytes the device may deliver: the least and greatest byte and two between.
SampleBytes == {0, 10, 171, 255}

RECURSIVE SeqsUpTo(_, _)
\* The sequences over S of length at most n.
SeqsUpTo(S, n) ==
    IF n = 0 THEN {<<>>}
    ELSE LET shorter == SeqsUpTo(S, n - 1) IN
         shorter \cup {Append(q, x) : q \in {r \in shorter : Len(r) = n - 1}, x \in S}

DeliveredPayloads == SeqsUpTo(SampleBytes, MaxPayloadLen)

\* The device's descriptors for a request that carries payload b.
DeliveredAnswer(b) ==
    [res |-> 0,
     advance |-> [msg_sender |-> Sender1, block_number |-> 11, block_timestamp |-> 1001,
                  index |-> 4, payload_length |-> Len(b), payload |-> b],
     inspect |-> [payload_length |-> Len(b), payload |-> b]]

\* handle_rollup_requests on a request of either type carrying any payload.
ReadDelivered ==
    \E fd \in Handles, t \in {REQUEST_TYPE_ADVANCE_STATE, REQUEST_TYPE_INSPECT_STATE},
       b \in DeliveredPayloads :
        LET finish_request == [accept_previous_request |-> TRUE, next_request_type |-> t,
                               next_request_payload_length |-> Len(b)] IN
        /\ Usable(fd)
        /\ req.op = "none"
        /\ Operation("handle_rollup_requests", finish_request,
                     handle_rollup_requests(hptr[fd], finish_request, DeliveredAnswer(b)))
        /\ delivered' = b
        /\ UNCHANGED <<pc, status, overlap, validated, pair>>

\* The payload text of the request just read.
EchoedPayload == ret.value.request.payload

\* One of the four emitters called on the payload text of the request just read.
EmitDelivered ==
    \E fd \in Handles, op \in {"rollup_write_notice", "rollup_write_voucher",
                               "rollup_write_report", "rollup_throw_exception"},
       dev \in IndexAnswers :
        LET voucher == [destination |-> <<"0", "x", "a", "b">>,
                        value |-> <<"0", "x", "0", "1">>, payload |-> EchoedPayload]
            arg == IF op = "rollup_write_voucher" THEN voucher
                   ELSE [payload |-> EchoedPayload]
            r == CASE op = "rollup_write_notice" -> rollup_write_notice(hptr[fd], arg, dev)
                   [] op = "rollup_write_voucher" -> rollup_write_voucher(hptr[fd], arg, dev)
                   [] op = "rollup_write_report" -> rollup_write_report(hptr[fd], arg, dev)
                   [] op = "rollup_throw_exception" -> rollup_throw_exception(hptr[fd], arg, dev)
        IN
        /\ Usable(fd)
        /\ req.op = "handle_rollup_requests"
        /\ ret.kind = "Ok"
        /\ Operation(op, arg, r)
        /\ UNCHANGED sideVars

NextRoundTrip == ReadDelivered \/ EmitDelivered

SpecRoundTrip == Init /\ [][NextRoundTrip]_vars

(***************************************************************************)
(* Request cycles. A task runs the finish step, on success the reader, on  *)
(* success any number of emitters, and ends the cycle; a failed finish or  *)
(* read is fatal to the session and no task goes on. Every operation       *)
(* borrows the one handle; the driver keeps no lock around the native      *)
(* calls.                                                                  *)
(***************************************************************************)
\* The device's answers in a cycle: a request of some type, or a failure that
\* left the finish structure alone.
CycleFinishAnswers ==
    {d \in FinishAnswers : d.next_request_payload_length = 0 /\ (d.wrote <=> d.res = 0)}

CycleReadAnswers ==
    {d \in ReadAnswers : d.res <= 0 /\ (d.res = 0 => d.advance.payload_length = 1)}

CycleIndexAnswers == {d \in IndexAnswers : d.res <= 0 /\ d.index \in {0, 1}}

\* The emitter calls a task may make: a notice that decodes and one that does
\* not, a voucher, a report, an exception.
CycleEmits ==
    {[op |-> "rollup_write_notice", arg |-> [payload |-> p]] :
        p \in {<<"0", "x", "a", "b">>, <<"0", "x", "z", "z">>}}
    \cup {[op |-> "rollup_write_voucher",
           arg |-> [destination |-> <<"0", "x", "a", "b">>, value |-> <<"0", "x", "0", "1">>,
                    payload |-> <<"0", "x", "a", "b">>]],
          [op |-> "rollup_write_report", arg |-> [payload |-> <<"0", "x", "a", "b">>]],
          [op |-> "rollup_throw_exception", arg |-> [payload |-> <<"0", "x", "a", "b">>]]}

\* A cycle in flight: the task holds a request it has not finished with.
InFlight(t) == pc[t] \in {"read", "emit"}

\* A mutual exclusion that lets a task call only while no other cycle is in flight.
TaskMayCallExclusive(t) == \A o \in Tasks \ {t} : ~InFlight(o)

\* What the driver demands of the other tasks before it passes a task's call to
\* the device: nothing.
TaskMayCall(t) == TRUE

\* No task has met a fatal error.
SessionUp == \A o \in Tasks : pc[o] # "stopped"

\* The handle a task borrows and room left in the trace.
TaskReady(t, fd) ==
    /\ ~crashed
    /\ SessionUp
    /\ hstate[fd] = "live"
    /\ Len(calls) < MaxCycleCalls
    /\ TaskMayCall(t)

\* The effect of a task's operation on the record of overlapping cycles.
Overlaps(t, r) == overlap \/ (r.issued # <<>> /\ \E o \in Tasks \ {t} : InFlight(o))

TaskFinish(t) ==
    \E fd \in Handles, accept \in BOOLEAN, dev \in CycleFinishAnswers :
        LET r == perform_rollup_finish_request(hptr[fd], accept, dev) IN
        /\ TaskReady(t, fd)
        /\ pc[t] = "idle"
        /\ Operation("perform_rollup_finish_request", accept, r)
        /\ pc' = [pc EXCEPT ![t] = IF r.ret.kind = "Ok" THEN "read" ELSE "stopped"]
        /\ status' = [status EXCEPT ![t] = IF r.ret.kind = "Ok" THEN r.ret.value ELSE NoStatus]
        /\ overlap' = Overlaps(t, r)
        /\ UNCHANGED <<delivered, validated, pair>>

TaskRead(t) ==
    \E fd \in Handles, dev \in CycleReadAnswers :
        LET r == handle_rollup_requests(hptr[fd], status[t], dev) IN
        /\ TaskReady(t, fd)
        /\ pc[t] = "read"
        /\ Operation("handle_rollup_requests", status[t], r)
        /\ pc' = [pc EXCEPT ![t] = IF r.ret.kind = "Ok" THEN "emit" ELSE "stopped"]
        /\ status' = [status EXCEPT ![t] = NoStatus]
        /\ overlap' = Overlaps(t, r)
        /\ UNCHANGED <<delivered, validated, pair>>

TaskEmit(t) ==
    \E fd \in Handles, e \in CycleEmits, dev \in CycleIndexAnswers :
        LET r == CASE e.op = "rollup_write_notice" -> rollup_write_notice(hptr[fd], e.arg, dev)
                   [] e.op = "rollup_write_voucher" -> rollup_write_voucher(hptr[fd], e.arg, dev)
                   [] e.op = "rollup_write_report" -> rollup_write_report(hptr[fd], e.arg, dev)
                   [] e.op = "rollup_throw_exception" -> rollup_throw_exception(hptr[fd], e.arg, dev)
        IN
        /\ TaskReady(t, fd)
        /\ pc[t] = "emit"
        /\ Operation(e.op, e.arg, r)
        /\ overlap' = Overlaps(t, r)
        /\ UNCHANGED <<pc, status, delivered, validated, pair>>

\* The task is done with its request; its next step is a finish.
TaskDone(t) ==
    /\ pc[t] = "emit"
    /\ pc' = [pc EXCEPT ![t] = "idle"]
    /\ UNCHANGED <<handleVars, protoVars, status, overlap, delivered, validated, pair>>

\* One caller, one cycle after another.
NextCycle ==
    \/ TaskFinish("task1")
    \/ TaskRead("task1")
    \/ TaskEmit("task1")
    \/ TaskDone("task1")

SpecCycle == Init /\ [][NextCycle]_vars

\* Two tasks, each running its own cycles on the shared handle.
NextTasks ==
    \E t \in Tasks :
        \/ TaskFinish(t)
        \/ TaskRead(t)
        \/ TaskEmit(t)
        \/ TaskDone(t)

SpecTasks == Init /\ [][NextTasks]_vars

(***************************************************************************)
(* The field validators of Voucher applied to a text.                      *)
(***************************************************************************)
\* n lowercase hex digits, each digit in turn.
LowerDigits(n) == [i \in 1..n |-> HexDigits[(i % 16) + 1]]

\* Texts given to the validators: every text of at most MaxTextLen characters
\* over a hex digit of either case, "0", "x" and a character that is no hex
\* digit; "0x" before 40, 42, 43, 64 and 65 digits; such texts behind other
\* characters; hex digits cut by a character that is none.
ValidatorTexts ==
    SeqsUpTo({"0", "x", "a", "F", "z"}, MaxTextLen)
        \cup {<<"0", "x">> \o LowerDigits(n) : n \in {40, 42, 43, 64, 65}}
        \cup {<<"z", "!", "0", "x">> \o LowerDigits(n) : n \in {40, 64}}
        \cup {<<"0", "x">> \o LowerDigits(20) \o <<"z">> \o LowerDigits(19)}

\* Voucher::validate on the destination and on the value, once: each field's
\* regex is searched in the text.
Validate ==
    \E text \in ValidatorTexts :
        /\ ~validated.done
        /\ validated' = [done |-> TRUE, text |-> text,
                         address |-> ETH_ADDR_REGEXP(text),
                         u256 |-> ETH_U256_REGEXP(text)]
        /\ UNCHANGED <<handleVars, protoVars, delivered, pc, status, overlap, pair>>

NextValidate == Validate

SpecValidate == Init /\ [][NextValidate]_vars

(***************************************************************************)
(* The emitters on payloads of any length. A payload too long to write out *)
(* is given by the number of bytes it decodes to; the buffer is allocated  *)
(* with that capacity and filled with that many bytes, and the native call *)
(* gets the length through `length as u32`.                                *)
(***************************************************************************)
\* Decoded lengths from 0 to 2^64 - 1: each limb least, one, or greatest.
LongLengths == {Usize(w3, w2, w1, w0) : w3 \in {0, 1, 65535}, w2 \in {0, 1, 65535},
                                        w1 \in {0, 1, 65535}, w0 \in {0, 1, 65535}}

\* An emitter called with a payload text that decodes to n bytes, the device
\* answering success.
EmitLong ==
    \E fd \in Handles, n \in LongLengths,
       e \in {[op |-> "rollup_write_notice", call |-> "cmt_rollup_emit_notice"],
              [op |-> "rollup_write_voucher", call |-> "cmt_rollup_emit_voucher"],
              [op |-> "rollup_write_report", call |-> "cmt_rollup_emit_report"],
              [op |-> "rollup_throw_exception", call |-> "cmt_rollup_emit_exception"]} :
        /\ Usable(fd)
        /\ req' = [op |-> e.op, arg |-> [decoded_length |-> n]]
        /\ issued' = <<[op |-> e.call, session |-> hptr[fd], length |-> UsizeAsU32(n),
                        buffer_length |-> n, res |-> 0, index |-> 0]>>
        /\ ret' = RetOk(IF e.op \in {"rollup_write_notice", "rollup_write_voucher"}
                           THEN 0 ELSE "unit")
        /\ calls' = Append(calls, e.call)
        /\ UNCHANGED <<handleVars, noticeLog, sideVars>>

NextLength == EmitLong

SpecLength == Init /\ [][NextLength]_vars

(***************************************************************************)
(* The finish call with a structure of the caller's: rollup_finish_request *)
(* is public and takes &mut RollupFinish.                                  *)
(***************************************************************************)
\* RollupFinish values a caller may pass in.
CallerFinishes ==
    [accept_previous_request : BOOLEAN, next_request_type : {0, 1, 7},
     next_request_payload_length : PayloadLengths]

\* rollup_finish_request(fd, &mut finish): req keeps the structure as passed
\* (arg) and as the call left it (out).
FinishRequest ==
    \E fd \in Handles, finish \in CallerFinishes, dev \in FinishAnswers :
        LET r == rollup_finish_request(hptr[fd], finish, dev) IN
        /\ Usable(fd)
        /\ req' = [op |-> "rollup_finish_request", arg |-> finish, out |-> r.finish]
        /\ issued' = r.issued
        /\ ret' = r.ret
        /\ calls' = calls \o CallNames(r.issued)
        /\ UNCHANGED <<handleVars, noticeLog, sideVars>>

NextFinish == FinishRequest \/ PerformFinish

SpecFinish == Init /\ [][NextFinish]_vars

(***************************************************************************)
(* The reader run twice: on two statuses of one request type, the device   *)
(* giving the same answer both times.                                      *)
(***************************************************************************)
\* Statuses that differ in every field.
ReaderStatuses ==
    [accept_previous_request : BOOLEAN, next_request_type : RequestTypes,
     next_request_payload_length : {0, 1, 7}]

ReadPair ==
    \E fd \in Handles, first \in ReaderStatuses, dev \in ReadAnswers :
      \E second \in {f \in ReaderStatuses : f.next_request_type = first.next_request_type} :
        /\ Usable(fd)
        /\ pair = <<>>
        /\ pair' = [dev |-> dev,
                    first |-> [finish_request |-> first,
                               r |-> handle_rollup_requests(hptr[fd], first, dev)],
                    second |-> [finish_request |-> second,
                                r |-> handle_rollup_requests(hptr[fd], second, dev)]]
        /\ UNCHANGED <<handleVars, protoVars, delivered, pc, status, overlap, validated>>

NextReaderPair == ReadPair

SpecReaderPair == Init /\ [][NextReaderPair]_vars

\* Handle values that currently own session s.
Owners(s) == {h \in Handles : hstate[h] = "live" /\ hptr[h] = s}

(***************************************************************************)
(* C1: every session acquired by a successful create() gets cmt_rollup_fini *)
(* exactly once: never twice, and once when no handle to it is left.       *)
(***************************************************************************)
C1_FiniExactlyOnce ==
    \A s \in initOk :
        /\ finiCalls[s] <= 1
        /\ (Owners(s) = {} => finiCalls[s] = 1)

(***************************************************************************)
(* C2: the handle cannot be duplicated: at most one handle value owns a    *)
(* given session pointer.                                                  *)
(***************************************************************************)
C2_SingleOwner == \A s \in Sessions : Cardinality(Owners(s)) <= 1

(***************************************************************************)
(* Vocabulary of the protocol claims.                                      *)
(***************************************************************************)
EmitOps ==
    {"rollup_write_notice", "rollup_write_voucher", "rollup_write_report",
     "rollup_throw_exception"}

\* The fields an emitter decodes, in the order it decodes them.
FieldsInDecodeOrder(r) ==
    IF r.op = "rollup_write_voucher"
       THEN <<r.arg.payload, r.arg.value, r.arg.destination>>
       ELSE <<r.arg.payload>>

\* Operation r is an emitter whose hex decoding of a field returned an error:
\* the fields before it decoded, and this one, cut after its first two bytes,
\* has an odd length or a character that is no hex digit.
DecodeErrorAt(r) ==
    /\ r.op \in EmitOps
    /\ LET fields == FieldsInDecodeOrder(r) IN
       \E i \in 1..Len(fields) :
           /\ DecodeField(fields[i]).kind = "err"
           /\ \A j \in 1..(i - 1) : DecodeField(fields[j]).kind = "ok"

FormatErrorTexts ==
    {"Error decoding notice payload, payload must be in Ethereum hex binary format",
     "Error decoding voucher payload, it must be in Ethereum hex binary format",
     "Error decoding voucher value, it must be in Ethereum hex binary format",
     "address not valid",
     "Error decoding report payload, payload must be in Ethereum hex binary format"}

IsFormatError(r) ==
    /\ r.kind = "Err"
    /\ r.error.type = "RollupError"
    /\ r.error.text \in FormatErrorTexts
    /\ ~r.error.coded

HexChars ==
    {"0", "1", "2", "3", "4", "5", "6", "7", "8", "9",
     "a", "b", "c", "d", "e", "f", "A", "B", "C", "D", "E", "F"}

\* The text is "0x" followed by an even number of hex digits.
WellFormedHex(text) ==
    /\ Len(text) >= 2
    /\ text[1] = "0"
    /\ text[2] = "x"
    /\ (Len(text) - 2) % 2 = 0
    /\ \A i \in 3..Len(text) : text[i] \in HexChars

(***************************************************************************)
(* C3: the Finish Step fails with a device error whenever the native       *)
(* finish call returns a nonzero status, negative or positive, and returns *)
(* a FinishStatus only when the status is 0.                               *)
(***************************************************************************)
C3_FinishFailsOnNonzero ==
    req.op = "perform_rollup_finish_request" =>
        /\ Len(issued) = 1
        /\ (issued[1].res # 0 => ret.kind = "Err")
        /\ (ret.kind = "Ok" => issued[1].res = 0)

(***************************************************************************)
(* C4: the Request Reader dispatches on next_request_type: 0 issues        *)
(* exactly the advance read, 1 exactly the inspect read, every other       *)
(* value, negative ones included, fails as unsupported with no native call.*)
(***************************************************************************)
C4_Dispatch ==
    req.op = "handle_rollup_requests" =>
        LET t == req.arg.next_request_type IN
        /\ (t = 0 => CallNames(issued) = <<"cmt_rollup_read_advance_state">>)
        /\ (t = 1 => CallNames(issued) = <<"cmt_rollup_read_inspect_state">>)
        /\ (t \notin {0, 1} =>
               /\ issued = <<>>
               /\ ret.kind = "Err"
               /\ ret.error.type = "io::ErrorKind::Unsupported"
               /\ ret.error.text = "request type unsupported")

C4_Witness ==
    /\ req.op = "handle_rollup_requests"
    /\ req.arg.next_request_type < 0
    /\ ret.kind = "Err"
    /\ issued = <<>>
    /\ calls # <<>>

C6_VoucherValidatedFirst ==
    (/\ req.op = "rollup_write_voucher"
     /\ (~ETH_ADDR_REGEXP(req.arg.destination) \/ ~ETH_U256_REGEXP(req.arg.value)))
        => (ret.kind # "Ok" /\ issued = <<>>)

(***************************************************************************)
(* C7: hex decoding in the emitters requires the "0x" prefix: a payload    *)
(* that is not "0x" followed by an even number of hex digits makes the     *)
(* emitter return a payload-format error value and issue no native call.   *)
(***************************************************************************)
C7_PrefixRequired ==
    (/\ req.op \in {"rollup_write_notice", "rollup_write_report", "rollup_throw_exception"}
     /\ ~WellFormedHex(req.arg.payload))
        => (IsFormatError(ret) /\ issued = <<>>)

(***************************************************************************)
(* C8: in each emitter a nonzero native status, negative or positive,      *)
(* yields a device error naming the operation and carrying the status, and *)
(* no index; success is returned only on status 0.                         *)
(***************************************************************************)
DeviceErrorText(op) ==
    CASE op = "rollup_write_notice" -> "IOCTL_ROLLUP_WRITE_NOTICE returned error"
      [] op = "rollup_write_voucher" -> "IOCTL_ROLLUP_WRITE_VOUCHER returned error"
      [] op = "rollup_write_report" -> "IOCTL_ROLLUP_WRITE_REPORT returned error"
      [] op = "rollup_throw_exception" -> "IOCTL_ROLLUP_THROW_EXCEPTION returned error"

C8_EmitDeviceError ==
    (req.op \in EmitOps /\ issued # <<>>) =>
        /\ (issued[1].res # 0 =>
               /\ ret.kind = "Err"
               /\ ret.value = "none"
               /\ ret.error.type = "RollupError"
               /\ ret.error.text = DeviceErrorText(req.op)
               /\ ret.error.coded
               /\ ret.error.code = issued[1].res)
        /\ (ret.kind = "Ok" <=> issued[1].res = 0)

C8_Witness ==
    /\ req.op = "rollup_write_voucher"
    /\ issued # <<>>
    /\ issued[1].res > 0
    /\ ret.kind = "Err"
    /\ ret.error.code = issued[1].res

(***************************************************************************)
(* C9: within a cycle the k-th successful emit_notice returns exactly the  *)
(* index the device wrote during the k-th native emit_notice call.         *)
(***************************************************************************)
C9_NoticeIndexPassThrough ==
    /\ \A k \in 1..Len(noticeLog) : noticeLog[k].drv = noticeLog[k].dev
    /\ (req.op = "rollup_write_notice" /\ ret.kind = "Ok") =>
           /\ Len(issued) = 1
           /\ ret.value = issued[1].index
           /\ noticeLog # <<>>
           /\ noticeLog[Len(noticeLog)].dev = issued[1].index

C9_Witness ==
    /\ req.op = "rollup_write_notice"
    /\ ret.kind = "Ok"
    /\ Len(noticeLog) = 2
    /\ noticeLog[1].dev = 2
    /\ noticeLog[2].dev = 1
    /\ ret.value = 1

(***************************************************************************)
(* C10: after a successful advance or inspect read the payload text is     *)
(* "0x" followed by the lowercase hex digits of exactly the payload_length *)
(* bytes the descriptor points to; length 0 gives "0x" and success.        *)
(***************************************************************************)
LowerHexDigit(n) ==
    CASE n = 0 -> "0" [] n = 1 -> "1" [] n = 2 -> "2" [] n = 3 -> "3"
      [] n = 4 -> "4" [] n = 5 -> "5" [] n = 6 -> "6" [] n = 7 -> "7"
      [] n = 8 -> "8" [] n = 9 -> "9" [] n = 10 -> "a" [] n = 11 -> "b"
      [] n = 12 -> "c" [] n = 13 -> "d" [] n = 14 -> "e" [] n = 15 -> "f"

C10_PayloadIsHexOfDescriptor ==
    (/\ req.op = "handle_rollup_requests"
     /\ issued # <<>>
     /\ issued[1].res = 0) =>
        /\ ret.kind = "Ok"
        /\ LET desc == issued[1].desc
               text == ret.value.request.payload
           IN
           /\ Len(text) = 2 + 2 * desc.payload_length
           /\ text[1] = "0"
           /\ text[2] = "x"
           /\ \A i \in 1..desc.payload_length :
                  /\ text[2 * i + 1] = LowerHexDigit(desc.payload[i] \div 16)
                  /\ text[2 * i + 2] = LowerHexDigit(desc.payload[i] % 16)

C10_Witness ==
    /\ req.op = "handle_rollup_requests"
    /\ ret.kind = "Ok"
    /\ ret.value.variant = "Inspect"
    /\ issued[1].desc.payload_length = 0
    /\ issued[1].desc.payload # <<>>
    /\ ret.value.request.payload = <<"0", "x">>

(***************************************************************************)
(* C11: the metadata of an advance request has input_index, block_number   *)
(* and block_timestamp equal to the descriptor's index, block_number and   *)
(* block_timestamp, and msg_sender equal to "0x" followed by the 40        *)
(* lowercase hex digits of the descriptor's 20 sender bytes.               *)
(***************************************************************************)
C11_MetadataVerbatim ==
    (/\ req.op = "handle_rollup_requests"
     /\ issued # <<>>
     /\ issued[1].op = "cmt_rollup_read_advance_state"
     /\ issued[1].res = 0) =>
        /\ ret.kind = "Ok"
        /\ ret.value.variant = "Advance"
        /\ LET desc == issued[1].desc
               metadata == ret.value.request.metadata
           IN
           /\ metadata.input_index = desc.index
           /\ metadata.block_number = desc.block_number
           /\ metadata.block_timestamp = desc.block_timestamp
           /\ Len(desc.msg_sender) = 20
           /\ Len(metadata.msg_sender) = 42
           /\ metadata.msg_sender[1] = "0"
           /\ metadata.msg_sender[2] = "x"
           /\ \A i \in 1..20 :
                  /\ metadata.msg_sender[2 * i + 1] = LowerHexDigit(desc.msg_sender[i] \div 16)
                  /\ metadata.msg_sender[2 * i + 2] = LowerHexDigit(desc.msg_sender[i] % 16)

C11_Witness ==
    /\ req.op = "handle_rollup_requests"
    /\ ret.kind = "Ok"
    /\ ret.value.variant = "Advance"
    /\ issued[1].desc.msg_sender[1] = 171
    /\ ret.value.request.metadata.msg_sender[3] = "a"
    /\ ret.value.request.metadata.msg_sender[4] = "b"
    /\ ret.value.request.metadata.block_number = 11
    /\ ret.value.request.metadata.block_timestamp = 1001
    /\ ret.value.request.metadata.input_index = 4

(***************************************************************************)
(* C12: hex round trip. For every byte sequence the device delivers as a   *)
(* request payload, the payload text the reader returns, handed unchanged  *)
(* to an emitter, decodes without error, and the bytes and the length that *)
(* reach the native emit call are exactly the delivered ones.              *)
(***************************************************************************)
C12_RoundTrip ==
    req.op \in EmitOps =>
        /\ ret.kind \in {"Ok", "Err"}
        /\ Len(issued) = 1
        /\ issued[1].data = delivered
        /\ issued[1].length = Len(delivered)
        /\ ret.kind = "Err" => issued[1].res # 0

C12_Witness ==
    /\ req.op = "rollup_write_notice"
    /\ calls = <<"cmt_rollup_read_advance_state", "cmt_rollup_emit_notice">>
    /\ delivered = <<10, 255, 171>>
    /\ req.arg.payload = <<"0", "x", "0", "a", "f", "f", "a", "b">>
    /\ issued[1].data = <<10, 255, 171>>
    /\ ret.kind = "Ok"

(***************************************************************************)
(* The cycle order of a device-side trace: finish, read, any number of     *)
(* emits, and again.                                                       *)
(***************************************************************************)
ReadCalls == {"cmt_rollup_read_advance_state", "cmt_rollup_read_inspect_state"}

EmitCalls ==
    {"cmt_rollup_emit_notice", "cmt_rollup_emit_voucher", "cmt_rollup_emit_report",
     "cmt_rollup_emit_exception"}

RECURSIVE OrderedAfter(_, _)
\* trace continues a cycle-ordered trace whose last call was of kind last.
OrderedAfter(trace, last) ==
    IF trace = <<>> THEN TRUE
    ELSE LET c == Head(trace) IN
         CASE c = "cmt_rollup_finish" ->
                  last \in {"none", "read", "emit"} /\ OrderedAfter(Tail(trace), "finish")
           [] c \in ReadCalls -> last = "finish" /\ OrderedAfter(Tail(trace), "read")
           [] c \in EmitCalls -> last \in {"read", "emit"} /\ OrderedAfter(Tail(trace), "emit")
           [] OTHER -> FALSE

CycleOrdered(trace) == OrderedAfter(trace, "none")

(***************************************************************************)
(* C13: the driver has no mutual exclusion of its own. With two tasks      *)
(* sharing the handle, a task's next operation is never held back by the   *)
(* other task's cycle, so traces out of cycle order are reachable (two     *)
(* finish calls with no read between: C13_Witness); the trace is in cycle  *)
(* order whenever no call was issued during another task's cycle.          *)
(***************************************************************************)
C13_NoMutualExclusion ==
    /\ \A t \in Tasks :
          (~crashed /\ SessionUp /\ Len(calls) < MaxCycleCalls) =>
              /\ pc[t] = "idle" => ENABLED TaskFinish(t)
              /\ pc[t] = "read" => ENABLED TaskRead(t)
              /\ pc[t] = "emit" => ENABLED TaskEmit(t)
    /\ ~overlap => CycleOrdered(calls)

C13_Witness ==
    /\ calls = <<"cmt_rollup_finish", "cmt_rollup_finish">>
    /\ pc["task1"] = "read"
    /\ pc["task2"] = "read"
    /\ overlap
    /\ ~CycleOrdered(calls)

(***************************************************************************)
(* C16: one sequential caller that follows the cycle (finish step, reader, *)
(* zero or more emitters, next finish step) produces a native call         *)
(* sequence of the shape finish, read, any number of emits, repeated; each *)
(* driver operation issues at most one native call, exactly one when it    *)
(* succeeds, and never a native call of another step.                      *)
(***************************************************************************)
NativeCallsOf(op) ==
    CASE op = "perform_rollup_finish_request" -> {"cmt_rollup_finish"}
      [] op = "handle_rollup_requests" -> ReadCalls
      [] op = "rollup_write_notice" -> {"cmt_rollup_emit_notice"}
      [] op = "rollup_write_voucher" -> {"cmt_rollup_emit_voucher"}
      [] op = "rollup_write_report" -> {"cmt_rollup_emit_report"}
      [] op = "rollup_throw_exception" -> {"cmt_rollup_emit_exception"}
      [] OTHER -> {}

C16_CycleShape ==
    /\ CycleOrdered(calls)
    /\ Len(issued) <= 1
    /\ ret.kind = "Ok" => Len(issued) = 1
    /\ \A i \in 1..Len(issued) : issued[i].op \in NativeCallsOf(req.op)

C16_Witness ==
    /\ calls = <<"cmt_rollup_finish", "cmt_rollup_read_inspect_state",
                 "cmt_rollup_emit_report", "cmt_rollup_finish">>
    /\ req.op = "perform_rollup_finish_request"
    /\ ret.kind = "Ok"
    /\ pc["task1"] = "read"
    /\ pc["task2"] = "idle"

(***************************************************************************)
(* C14: the address validator accepts a text exactly when some suffix of   *)
(* it is "0x" followed by 1 to 42 hex digits of either case up to the end  *)
(* of the text: it accepts "0x" and 40 lowercase hex digits, accepts such  *)
(* a text behind other characters, and rejects a text whose characters     *)
(* after the last "0x" are not all hex digits. The u256 validator is the   *)
(* same with 1 to 64 digits.                                               *)
(***************************************************************************)
\* The last k + 2 characters of the text are "0x" and k hex digits.
EndsWithHex(text, k) ==
    /\ Len(text) >= k + 2
    /\ text[Len(text) - k - 1] = "0"
    /\ text[Len(text) - k] = "x"
    /\ \A j \in (Len(text) - k + 1)..Len(text) : text[j] \in HexChars

\* The offsets of "0x" in the text.
OxOffsets(text) == {i \in 1..(Len(text) - 1) : text[i] = "0" /\ text[i + 1] = "x"}

\* Some character after the last "0x" of the text is no hex digit.
BrokenAfterLastOx(text) ==
    /\ OxOffsets(text) # {}
    /\ LET last == CHOOSE i \in OxOffsets(text) : \A o \in OxOffsets(text) : o <= i IN
       \E j \in (last + 2)..Len(text) : text[j] \notin HexChars

C14_ValidatorsMatchSuffix ==
    validated.done =>
        LET text == validated.text IN
        /\ validated.address <=> \E k \in 1..42 : EndsWithHex(text, k)
        /\ validated.u256 <=> \E k \in 1..64 : EndsWithHex(text, k)
        /\ text = <<"0", "x">> \o LowerDigits(40) => validated.address
        /\ text = <<"z", "!", "0", "x">> \o LowerDigits(40) => validated.address
        /\ text = <<"z", "!", "0", "x">> \o LowerDigits(64) => validated.u256
        /\ BrokenAfterLastOx(text) => (~validated.address /\ ~validated.u256)

C14_Witness ==
    /\ validated.done
    /\ validated.text = <<"z", "!", "0", "x">> \o LowerDigits(40)
    /\ validated.address
    /\ validated.u256

(***************************************************************************)
(* C15: on every finish step through perform_rollup_finish_request(fd,     *)
(* accept), whatever happened before, the device receives a structure with *)
(* accept_previous_request = accept and next_request_type and              *)
(* next_request_payload_length both 0; on success the FinishStatus         *)
(* returned carries the type and the payload length the device wrote       *)
(* during that call.                                                       *)
(***************************************************************************)
C15_FinishStartsFromZero ==
    req.op = "perform_rollup_finish_request" =>
        /\ Len(issued) = 1
        /\ issued[1].op = "cmt_rollup_finish"
        /\ issued[1].arg = [accept_previous_request |-> req.arg,
                            next_request_type |-> 0,
                            next_request_payload_length |-> 0]
        /\ ret.kind = "Ok" =>
              /\ ret.value.next_request_type = issued[1].out.next_request_type
              /\ ret.value.next_request_payload_length =
                     issued[1].out.next_request_payload_length

C15_Witness ==
    /\ req.op = "perform_rollup_finish_request"
    /\ calls = <<"cmt_rollup_finish", "cmt_rollup_finish">>
    /\ req.arg = TRUE
    /\ issued[1].arg.next_request_type = 0
    /\ issued[1].out.next_request_type = 1
    /\ issued[1].out.next_request_payload_length = 2
    /\ ret.kind = "Ok"
    /\ ret.value.next_request_type = 1
    /\ ret.value.next_request_payload_length = 2

(***************************************************************************)
(* C17: emit_voucher reports the error of the field checked first: every   *)
(* voucher whose destination has a character that is no hex digit after    *)
(* "0x" fails with the address format error, whatever its value and its    *)
(* payload are, and no native call is issued.                              *)
(***************************************************************************)
\* The text is "0x" followed by characters of which one is no hex digit.
NonHexAfterPrefix(text) ==
    /\ Len(text) > 2
    /\ text[1] = "0"
    /\ text[2] = "x"
    /\ \E i \in 3..Len(text) : text[i] \notin HexChars

C17_AddressErrorFirst ==
    (/\ req.op = "rollup_write_voucher"
     /\ NonHexAfterPrefix(req.arg.destination)) =>
        /\ ret.kind = "Err"
        /\ ret.error.text = "address not valid"
        /\ issued = <<>>

(***************************************************************************)
(* C18: for each emitter and every decodable input, the length argument of *)
(* the native emit call equals the number of decoded bytes and the buffer  *)
(* holds exactly those bytes, for every decoded length, lengths that do    *)
(* not fit the 32-bit length parameter included.                           *)
(***************************************************************************)
C18_LengthIsDecodedLength ==
    (req.op \in EmitOps /\ issued # <<>>) =>
        LET n == req.arg.decoded_length IN
        /\ issued[1].buffer_length = n
        /\ Usize(0, 0, issued[1].length.hi, issued[1].length.lo) = n

(***************************************************************************)
(* C19: when the native finish call fails, rollup_finish_request leaves    *)
(* the caller's RollupFinish exactly as it was before the call, and        *)
(* perform_rollup_finish_request returns no FinishStatus, so no request    *)
(* descriptor of a failed handshake reaches the reader.                    *)
(***************************************************************************)
C19_FailedFinishLeavesNothing ==
    (/\ req.op \in {"rollup_finish_request", "perform_rollup_finish_request"}
     /\ issued[1].res # 0) =>
        /\ ret.kind = "Err"
        /\ req.op = "rollup_finish_request" => req.out = req.arg

(***************************************************************************)
(* C20: the reader's outcome depends on the FinishStatus only through      *)
(* next_request_type: two calls whose statuses differ only in              *)
(* next_request_payload_length or accept_previous_request and that meet    *)
(* the same device answer issue the same native calls and return the same  *)
(* request; the payload length comes from the read descriptor alone.       *)
(***************************************************************************)
C20_ReaderUsesTypeOnly ==
    pair # <<>> =>
        /\ pair.first.r.issued = pair.second.r.issued
        /\ pair.first.r.ret = pair.second.r.ret
        /\ \A run \in {pair.first, pair.second} :
              run.r.ret.kind = "Ok" =>
                  Len(run.r.ret.value.request.payload)
                      = 2 + 2 * run.r.issued[1].desc.payload_length

C20_Witness ==
    /\ pair # <<>>
    /\ pair.first.finish_request.next_request_payload_length = 0
    /\ ~pair.first.finish_request.accept_previous_request
    /\ pair.second.finish_request.next_request_payload_length = 7
    /\ pair.second.finish_request.accept_previous_request
    /\ pair.dev.advance.payload_length = 2
    /\ pair.first.r.ret.kind = "Ok"
    /\ pair.first.r.ret.value.variant = "Advance"
    /\ pair.second.r.ret.value.request.payload = <<"0", "x", "d", "e", "a", "d">>

====
